---- MODULE Spec2Model ----
(***************************************************************************)
(* A model of fix-imports.py: the regular-expression import fixer          *)
(* (fix_imports / fix_import_line), the per-file processor (process_file)  *)
(* and the directory walk (main).                                          *)
(*                                                                         *)
(* A text is a sequence of one-character strings, so that the regular      *)
(* expressions are matched character by character as Python's re does.     *)
(***************************************************************************)
EXTENDS Integers, Sequences, FiniteSets, TLC

(***************************************************************************)
(* Bounds of the model.                                                    *)
(***************************************************************************)
\* The most names an enumerated import list holds.
MaxNames == 3
\* The most names in the import list of the file of the one-file walk.
MaxFileNames == 2
\* The most files the walk of main yields.
MaxFiles == 2

(***************************************************************************)
(* Character classes of Python's re on the characters the inputs use.      *)
(***************************************************************************)
\* \s
Whitespace == {" ", "\n", "\t"}

\* \w
WordChars ==
    {"a","b","c","d","e","f","g","h","i","j","k","l","m","n","o","p","q","r",
     "s","t","u","v","w","x","y","z",
     "A","B","C","D","E","F","G","H","I","J","K","L","M","N","O","P","Q","R",
     "S","T","U","V","W","X","Y","Z",
     "0","1","2","3","4","5","6","7","8","9","_"}

\* ['"]
Quotes == {"'", "\""}

(***************************************************************************)
(* The literals of the script.                                             *)
(***************************************************************************)
kwImport == <<"i","m","p","o","r","t">>

kwFrom == <<"f","r","o","m">>

ModuleName == <<"@","z","e","n","/","t","u","i">>

RenderApp == <<"r","e","n","d","e","r","A","p","p">>

FullscreenLayout ==
    <<"F","u","l","l","s","c","r","e","e","n","L","a","y","o","u","t">>

\* '<FullscreenLayout>'
UsageMarker == <<"<">> \o FullscreenLayout \o <<">">>

\* ' from \'@zen/tui\';'
FromClause == <<" ">> \o kwFrom \o <<" ", "'">> \o ModuleName \o <<"'", ";">>

(***************************************************************************)
(* String helpers: s[i..] starts with lit; lit in s; s.count(lit).         *)
(***************************************************************************)
StartsWith(s, i, lit) ==
    /\ i >= 1
    /\ i + Len(lit) - 1 <= Len(s)
    /\ \A k \in 1..Len(lit) : s[i + k - 1] = lit[k]

Contains(s, lit) == \E i \in 1..Len(s) : StartsWith(s, i, lit)

Occurrences(s, lit) == Cardinality({i \in 1..Len(s) : StartsWith(s, i, lit)})

(***************************************************************************)
(* The regular expressions of the script, as Python's re matches them.     *)
(* A pattern is a sequence of elements: a literal, one character of a      *)
(* class, a greedy repetition of a class (at least min times; neg for a    *)
(* complemented class), an alternation tried in order, or the mark of a    *)
(* group boundary.                                                         *)
(***************************************************************************)
Lit(text) == [k |-> "lit", v |-> text]

One(class) == [k |-> "one", v |-> class]

Plus(class) == [k |-> "rep", v |-> class, neg |-> FALSE, min |-> 1]

Star(class) == [k |-> "rep", v |-> class, neg |-> FALSE, min |-> 0]

PlusNot(class) == [k |-> "rep", v |-> class, neg |-> TRUE, min |-> 1]

Alt(texts) == [k |-> "alt", v |-> texts]

Mark == [k |-> "mark"]

\* Where the longest run from i of characters of the repetition p ends.
RunEnd(s, i, p) ==
    CHOOSE e \in i..(Len(s) + 1) :
        /\ e > Len(s) \/ ((s[e] \in p.v) = p.neg)
        /\ \A j \in i..(e - 1) : (s[j] \in p.v) # p.neg

\* The match of the elements k.. of pat at position i of s: the positions
\* of the marks, in order, and then the position after the match; <<>> when
\* there is no match.  A repetition takes as much as it can and gives back
\* a character at a time, so it ends at the last position up to e, and not
\* before lo, from which the rest matches; an alternation takes its first
\* text that lets the rest match.
RECURSIVE Match(_, _, _, _)
RECURSIVE GiveBack(_, _, _, _, _)
RECURSIVE TryAlt(_, _, _, _, _)
Match(s, i, pat, k) ==
    IF k > Len(pat) THEN <<i>>
    ELSE CASE pat[k].k = "lit" ->
                IF StartsWith(s, i, pat[k].v)
                THEN Match(s, i + Len(pat[k].v), pat, k + 1)
                ELSE <<>>
           [] pat[k].k = "one" ->
                IF i <= Len(s) /\ s[i] \in pat[k].v
                THEN Match(s, i + 1, pat, k + 1)
                ELSE <<>>
           [] pat[k].k = "rep" ->
                GiveBack(s, RunEnd(s, i, pat[k]), i + pat[k].min, pat, k + 1)
           [] pat[k].k = "alt" -> TryAlt(s, i, pat, k, 1)
           [] pat[k].k = "mark" ->
                LET r == Match(s, i, pat, k + 1)
                IN  IF r = <<>> THEN <<>> ELSE <<i>> \o r

GiveBack(s, e, lo, pat, k) ==
    LET ends == {j \in lo..e : Match(s, j, pat, k) # <<>>}
    IN  IF ends = {} THEN <<>>
        ELSE Match(s, CHOOSE j \in ends : \A q \in ends : q <= j, pat, k)

TryAlt(s, i, pat, k, a) ==
    IF a > Len(pat[k].v) THEN <<>>
    ELSE LET r == IF StartsWith(s, i, pat[k].v[a])
                  THEN Match(s, i + Len(pat[k].v[a]), pat, k + 1)
                  ELSE <<>>
         IN  IF r # <<>> THEN r ELSE TryAlt(s, i, pat, k, a + 1)

\* The positions of s at which pat matches.
Starts(s, pat) == {p \in 1..Len(s) : Match(s, p, pat, 1) # <<>>}

\* The matches taken from pos on, among those that start at starts: the
\* leftmost one, with its start and its end (exclusive), and then those
\* from its end on.
RECURSIVE Pick(_, _, _, _)
Pick(s, pat, starts, pos) ==
    LET rest == {p \in starts : p >= pos}
    IN  IF rest = {} THEN <<>>
        ELSE LET p == CHOOSE p \in rest : \A q \in rest : p <= q
                 m == Match(s, p, pat, 1)
             IN  <<[from |-> p, to |-> m[Len(m)], m |-> m]>>
                 \o Pick(s, pat, starts, m[Len(m)])

\* pattern.finditer(s) from pos: the matches, leftmost first and never
\* overlapping.
Matches(s, pos, pat) == Pick(s, pat, Starts(s, pat), pos)

\* s from pos with the span [from, to) of each of calls (from the k-th on)
\* replaced by that call's result, the text between the spans kept.
RECURSIVE Join(_, _, _, _)
Join(s, calls, k, pos) ==
    IF k > Len(calls) THEN SubSeq(s, pos, Len(s))
    ELSE SubSeq(s, pos, calls[k].from - 1) \o calls[k].result
         \o Join(s, calls, k + 1, calls[k].to)

\* re.sub on s, whose matches are ms, the k-th replaced by repl[k].  text is
\* the result, calls the replacements made, each with the span of s it
\* replaces.
Sub(s, ms, repl) ==
    LET calls == <<>> \o [k \in 1..Len(ms) |->
                            [from |-> ms[k].from, to |-> ms[k].to,
                             result |-> repl[k]]]
    IN  [text |-> Join(s, calls, 1, 1), calls |-> calls]

(***************************************************************************)
(* fix_import_line, for the match whose group(1) is import_stmt, within    *)
(* the text content that fix_imports was called with.                      *)
(***************************************************************************)
\* r'(\w+)\s+(renderApp|FullscreenLayout)'
comma_pattern ==
    <<Plus(WordChars), Mark, Plus(Whitespace), Mark,
      Alt(<<RenderApp, FullscreenLayout>>)>>

\* re.sub(r'(\w+)\s+(renderApp|FullscreenLayout)', r'\1, \2', import_stmt)
FixCommas(import_stmt) ==
    LET ms == Matches(import_stmt, 1, comma_pattern)
    IN  Sub(import_stmt, ms,
            [k \in 1..Len(ms) |->
                SubSeq(import_stmt, ms[k].from, ms[k].m[1] - 1)
                \o <<",", " ">>
                \o SubSeq(import_stmt, ms[k].m[2], ms[k].m[3] - 1)]).text

\* r'(\w+)\s*}'
brace_pattern == <<Plus(WordChars), Mark, Star(Whitespace), Lit(<<"}">>)>>

\* re.sub(r'(\w+)\s*}', r'\1, FullscreenLayout}', import_stmt)
AddFullscreen(import_stmt) ==
    LET ms == Matches(import_stmt, 1, brace_pattern)
    IN  Sub(import_stmt, ms,
            [k \in 1..Len(ms) |->
                SubSeq(import_stmt, ms[k].from, ms[k].m[1] - 1)
                \o <<",", " ">> \o FullscreenLayout \o <<"}">>]).text

\* '<FullscreenLayout>' in content
has_fullscreen_usage(content) == Contains(content, UsageMarker)

\* The check left out.
NoImportCheck(import_stmt) == FALSE

\* 'FullscreenLayout' in import_stmt
has_fullscreen_import(import_stmt) == Contains(import_stmt, FullscreenLayout)

\* import_stmt + ' from "@zen/tui";': the quotes not normalized.
DoubleQuoted(import_stmt) ==
    import_stmt \o <<" ">> \o kwFrom \o <<" ", "\"">> \o ModuleName
    \o <<"\"", ";">>

\* import_stmt + ' from \'@zen/tui\';'
Rebuild(import_stmt) == import_stmt \o FromClause

fix_import_line(content, import_stmt) ==
    LET commaFixed == FixCommas(import_stmt)
    IN  IF has_fullscreen_usage(content) /\ ~has_fullscreen_import(import_stmt)
        THEN Rebuild(AddFullscreen(commaFixed))
        ELSE Rebuild(commaFixed)

(***************************************************************************)
(* fix_imports.                                                            *)
(***************************************************************************)
\* The pattern with any module name: from\s+['"][^'"]+['"];
any_module_pattern ==
    <<Lit(kwImport), Plus(Whitespace), Lit(<<"{">>), PlusNot({"}"}),
      Lit(<<"}">>), Mark, Plus(Whitespace), Lit(kwFrom), Plus(Whitespace),
      One(Quotes), PlusNot(Quotes), One(Quotes), Lit(<<";">>)>>

\* r'(import\s+\{[^}]+\})\s+from\s+[\'"]@zen/tui[\'"];'
import_pattern ==
    <<Lit(kwImport), Plus(Whitespace), Lit(<<"{">>), PlusNot({"}"}),
      Lit(<<"}">>), Mark, Plus(Whitespace), Lit(kwFrom), Plus(Whitespace),
      One(Quotes), Lit(ModuleName), One(Quotes), Lit(<<";">>)>>

\* re.sub(import_pattern, fix_import_line, content), with the calls of
\* fix_import_line it made.
fix_imports_traced(content) ==
    LET ms == Matches(content, 1, import_pattern)
    IN  Sub(content, ms,
            [k \in 1..Len(ms) |->
                fix_import_line(content,
                    SubSeq(content, ms[k].from, ms[k].m[1] - 1))])

fix_imports(content) == fix_imports_traced(content).text

(***************************************************************************)
(* process_file on a file holding content.  fault is what the file system  *)
(* does during the call: "none", or the step that raises: "read" (the open *)
(* for reading, the read or the decoding), "open" (the open for writing,   *)
(* before it truncates the file), "truncated" (the write, with nothing     *)
(* written yet) or "partial" (the write, part way).                        *)
(* The result: ret, the value returned; disk, the file's content after the *)
(* call; writes, how often the file was opened for writing; err, whether   *)
(* the error line was printed; raised, whether an exception left the call. *)
(***************************************************************************)
Faults == {"none", "read", "open", "truncated", "partial"}

AlwaysTrue(content) == TRUE

\* 'renderApp' in content
HasRenderApp(content) == Contains(content, RenderApp)

AlwaysDiffers(new_content, content) == TRUE

\* new_content != content
Differs(new_content, content) == new_content # content

\* What a write that raised leaves in the file.
AfterFailedWrite(content, new_content, fault) ==
    CASE fault = "open"      -> content
      [] fault = "truncated" -> <<>>
      [] OTHER               -> SubSeq(new_content, 1, Len(new_content) \div 2)

\* Without the try/except the exception leaves process_file.
Uncaught(disk, writes) ==
    [ret |-> FALSE, disk |-> disk, writes |-> writes, err |-> FALSE,
     raised |-> TRUE]

\* except Exception as e: print(...); return False
Caught(disk, writes) ==
    [ret |-> FALSE, disk |-> disk, writes |-> writes, err |-> TRUE,
     raised |-> FALSE]

Returns(ret, disk, writes) ==
    [ret |-> ret, disk |-> disk, writes |-> writes, err |-> FALSE,
     raised |-> FALSE]

\* with open(filepath, 'w') as f: f.write(new_content); return True
WriteBack(content, new_content, fault) ==
    IF fault = "none"
    THEN Returns(TRUE, new_content, 1)
    ELSE Caught(AfterFailedWrite(content, new_content, fault), 1)

process_file(content, fault) ==
    IF fault = "read" THEN Caught(content, 0)
    ELSE IF ~HasRenderApp(content) THEN Returns(FALSE, content, 0)
    ELSE IF Differs(fix_imports(content), content)
         THEN WriteBack(content, fix_imports(content), fault)
         ELSE Returns(FALSE, content, 0)

(***************************************************************************)
(* The input texts.  A text is                                             *)
(*     import { list }  tail  after                                        *)
(* where list is up to MaxNames names with a blank or a comma and a blank  *)
(* between them, and nothing, a blank or a comma and a blank after them.   *)
(***************************************************************************)
Names == {<<"a">>, RenderApp, FullscreenLayout}

Seps == {<<" ">>, <<",", " ">>}

Trailers == {<<>>, <<" ">>, <<",", " ">>}

RECURSIVE Joined(_)
Joined(n) ==
    IF n = 1 THEN Names
    ELSE {l \o sp \o nm : l \in Joined(n - 1), sp \in Seps, nm \in Names}

NameLists(n) ==
    {<<" ">>} \cup
    {<<" ">> \o l \o tr : l \in UNION {Joined(k) : k \in 1..n},
                          tr \in Trailers}

OtherModule == <<"o","t","h","e","r">>

\* ' from "@zen/tui";'
DoubleQuotedClause ==
    <<" ">> \o kwFrom \o <<" ", "\"">> \o ModuleName \o <<"\"", ";">>

\* ' from 'other';'
OtherClause == <<" ">> \o kwFrom \o <<" ", "'">> \o OtherModule \o <<"'", ";">>

Tails == {FromClause, DoubleQuotedClause, OtherClause}

\* import  {renderApp}
\*   from  '@zen/tui";
ThirdImport ==
    kwImport \o <<" ", "\t", "{">> \o RenderApp \o <<"}", "\n", " ", " ">>
    \o kwFrom \o <<" ", " ", "'">> \o ModuleName \o <<"\"", ";">>

Afters ==
    { <<>>,
      <<"\n">> \o UsageMarker,
      <<"\n">> \o ThirdImport \o <<"\n">> \o UsageMarker }

\* The texts with lists of up to n names.
InputsUpTo(n) ==
    { kwImport \o <<" ", "{">> \o l \o <<"}">> \o t \o a :
        l \in NameLists(n), t \in Tails, a \in Afters }

\* The texts fix_imports is applied to.
Inputs == InputsUpTo(MaxNames)

\* The texts a file of the one-file walk holds.
FileInputs == InputsUpTo(MaxFileNames)

\* import { renderApp } from '@zen/tui';
ExampleImport ==
    kwImport \o <<" ", "{", " ">> \o RenderApp \o <<" ", "}">> \o FromClause

\* import { renderApp } from "@zen/tui";
QuoteOnlyImport ==
    kwImport \o <<" ", "{", " ">> \o RenderApp \o <<" ", "}">>
    \o DoubleQuotedClause

\* The files of the walk: one the fixer changes, one it only requotes, one
\* it leaves as it is, one without renderApp.
SampleFiles ==
    { ExampleImport \o <<"\n">> \o UsageMarker,
      QuoteOnlyImport,
      ExampleImport,
      kwImport \o <<" ", "{", " ", "a", " ", "}">> \o FromClause
          \o <<"\n">> \o UsageMarker }

(***************************************************************************)
(* State.                                                                  *)
(***************************************************************************)
VARIABLES
    input,      \* the text fix_imports is applied to
    first,      \* fix_imports(input): its text, and the calls of
                \* fix_import_line that made it
    twice,      \* fix_imports(fix_imports(input))
    stage,      \* "input", "fixed", "refixed" ("none" in the walk)
    disk0,      \* file -> its content when main starts
    disk,       \* file -> its content
    pending,    \* the files rglob has not yielded yet
    cur,        \* tsx_file, the file the loop body is at (0: none)
    io,         \* file -> what the file system does in its process_file call
    res,        \* file -> what its process_file call did
    attempts,   \* file -> the number of process_file calls for it
    fixed,      \* main's counter
    out,        \* the lines printed
    pc          \* "walk", "done", "crashed" ("idle" in FixSpec)

\* Before fix_imports is called.
NotCalled == [text |-> <<>>, calls |-> <<>>]

fixVars == <<input, first, twice, stage>>

walkVars == <<disk0, disk, pending, cur, io, res, attempts, fixed, out, pc>>

vars == <<fixVars, walkVars>>

Files == DOMAIN disk

(***************************************************************************)
(* FixSpec: fix_imports applied to an input text, and again to its output. *)
(***************************************************************************)
InitFix ==
    /\ input \in Inputs
    /\ first = NotCalled
    /\ twice = <<>>
    /\ stage = "input"
    /\ disk0 = <<>> /\ disk = <<>> /\ pending = {} /\ cur = 0 /\ io = <<>>
    /\ res = <<>> /\ attempts = <<>> /\ fixed = 0 /\ out = <<>> /\ pc = "idle"

Fix ==
    /\ stage = "input"
    /\ first' = fix_imports_traced(input)
    /\ stage' = "fixed"
    /\ UNCHANGED <<input, twice, walkVars>>

FixAgain ==
    /\ stage = "fixed"
    /\ twice' = fix_imports(first.text)
    /\ stage' = "refixed"
    /\ UNCHANGED <<input, first, walkVars>>

NextFix == Fix \/ FixAgain

FixSpec == InitFix /\ [][NextFix]_vars

(***************************************************************************)
(* main: the walk over the files, process_file on each, the summary.       *)
(***************************************************************************)
InitWalk(contents, sizes) ==
    /\ disk0 \in UNION {[1..n -> contents] : n \in sizes}
    /\ disk = disk0
    /\ pending = DOMAIN disk0
    /\ cur = 0
    /\ io = [f \in DOMAIN disk0 |-> "none"]
    /\ res = [f \in DOMAIN disk0 |-> Returns(FALSE, disk0[f], 0)]
    /\ attempts = [f \in DOMAIN disk0 |-> 0]
    /\ fixed = 0
    /\ out = <<>>
    /\ pc = "walk"
    /\ input = <<>> /\ first = NotCalled /\ twice = <<>>
    /\ stage = "none"

\* for tsx_file in examples_dir.rglob('*.tsx'): the walk yields its next
\* file, in no particular order; fault is what the file system will do
\* while the file is processed.
Yield(f, fault) ==
    /\ pc = "walk"
    /\ cur = 0
    /\ f \in pending
    /\ cur' = f
    /\ pending' = pending \ {f}
    /\ io' = [io EXCEPT ![f] = fault]
    /\ UNCHANGED <<disk0, disk, res, attempts, fixed, out, pc, fixVars>>

\* The loop body: process_file(tsx_file) runs, and a file it fixed is
\* reported and counted.  An exception that left process_file would end
\* main with a traceback.
Body ==
    /\ pc = "walk"
    /\ cur # 0
    /\ res' = [res EXCEPT ![cur] = process_file(disk[cur], io[cur])]
    /\ disk' = [disk EXCEPT ![cur] = res'[cur].disk]
    /\ attempts' = [attempts EXCEPT ![cur] = @ + 1]
    /\ out' = out
          \o (IF res'[cur].err
              THEN <<[kind |-> "error", arg |-> cur]>> ELSE <<>>)
          \o (IF res'[cur].ret /\ ~res'[cur].raised
              THEN <<[kind |-> "fixed", arg |-> cur]>> ELSE <<>>)
    /\ fixed' = IF res'[cur].ret /\ ~res'[cur].raised THEN fixed + 1 ELSE fixed
    /\ pc' = IF res'[cur].raised THEN "crashed" ELSE "walk"
    /\ cur' = 0
    /\ UNCHANGED <<disk0, pending, io, fixVars>>

\* print(f"\nFixed {fixed} files")
Finish ==
    /\ pc = "walk"
    /\ cur = 0
    /\ pending = {}
    /\ out' = Append(out, [kind |-> "summary", arg |-> fixed])
    /\ pc' = "done"
    /\ UNCHANGED <<disk0, disk, pending, cur, io, res, attempts, fixed, fixVars>>

Next ==
    \/ \E f \in Files, fault \in Faults : Yield(f, fault)
    \/ Body
    \/ Finish

\* main over a directory of up to MaxFiles files.
Init == InitWalk(SampleFiles, 0..MaxFiles)

Spec == Init /\ [][Next]_vars

\* The call process_file(tsx_file) comes back to the loop, by a return or by
\* an exception: whichever way, the file is no longer the one in process.
Return == pc = "walk" /\ cur # 0 /\ cur' = 0

\* main is a sequential program: the walk hands out its next file, a call
\* of process_file comes back, and past the loop the summary is printed.
FairSpec ==
    /\ Spec
    /\ WF_vars(\E f \in Files, fault \in Faults : Yield(f, fault))
    /\ WF_cur(Return)
    /\ WF_vars(Finish)

\* main over a directory that holds one file, with any of the input texts.
InitOne == InitWalk(FileInputs, {1})

FileSpec == InitOne /\ [][Next]_vars

(***************************************************************************)
(* Helpers of the properties.                                              *)
(***************************************************************************)
EndsWith(s, lit) ==
    Len(lit) <= Len(s) /\ StartsWith(s, Len(s) - Len(lit) + 1, lit)

\* The calls of fix_import_line that fix_imports(input) made.
Calls == {first.calls[k] : k \in DOMAIN first.calls}

\* The part of input that the result of call c replaces.
SpanText(c) == SubSeq(input, c.from, c.to - 1)

\* The first position at or after i that holds a closing brace.
BraceAt(s, i) ==
    CHOOSE e \in i..(Len(s) + 1) :
        /\ e > Len(s) \/ s[e] = "}"
        /\ \A j \in i..(e - 1) : s[j] # "}"

\* group(1) of the match of call c: 'import { ... }' as it was.
ImportStmt(c) == SubSeq(input, c.from, BraceAt(input, c.from))

\* The rewritten 'import { ... }' of call c: its result without the clause.
Rewritten(c) == SubSeq(c.result, 1, Len(c.result) - Len(FromClause))

\* By how much the calls that end at or before position p of input move
\* the text that follows them.
RECURSIVE Shift(_, _)
Shift(p, k) ==
    IF k > Len(first.calls) \/ first.calls[k].to > p THEN 0
    ELSE Len(first.calls[k].result)
             - (first.calls[k].to - first.calls[k].from)
         + Shift(p, k + 1)

\* Position p of input lies in no replaced span.
Outside(p) == \A c \in Calls : p < c.from \/ c.to <= p

\* An import statement of the module 'other' at i: its end (exclusive),
\* 0 when there is none.
OtherImportEnd(s, i) ==
    IF StartsWith(s, i, kwImport)
       /\ StartsWith(s, BraceAt(s, i) + 1, OtherClause)
    THEN BraceAt(s, i) + 1 + Len(OtherClause) ELSE 0

\* The name list of a call lacks a comma that the separator repair looks for.
LacksComma(s) == \E j \in 1..Len(s) : Match(s, j, comma_pattern, 1) # <<>>

\* "@zen/tui"
DoubleQuotedModule == <<"\"">> \o ModuleName \o <<"\"">>

\* import_pattern matches at i and the match ends in "@zen/tui";
DoubleQuotedAt(t, i) ==
    LET m == Match(t, i, import_pattern, 1)
    IN  /\ t[i] = "i"
        /\ m # <<>>
        /\ StartsWith(t, m[2] - Len(DoubleQuotedModule) - 1,
                      DoubleQuotedModule)

\* t with every "@zen/tui" written '@zen/tui'.
Requote(t) ==
    <<>> \o [i \in 1..Len(t) |->
               IF \/ StartsWith(t, i, DoubleQuotedModule)
                  \/ StartsWith(t, i - Len(DoubleQuotedModule) + 1,
                                DoubleQuotedModule)
               THEN "'" ELSE t[i]]

\* t holds an import from "@zen/tui", in double quotes, that the pattern
\* matches.
DoubleQuotedMatch(t) == \E i \in 1..Len(t) : DoubleQuotedAt(t, i)

\* t differs from a text the fixer leaves alone only by the double quotes
\* of its imports from "@zen/tui".
QuoteOnly(t) ==
    /\ DoubleQuotedMatch(t)
    /\ fix_imports(Requote(t)) = Requote(t)

\* process_file has been called on f and has returned.
Processed(f) == attempts[f] > 0

\* An exception was raised inside the process_file call on f.
Faulted(f) ==
    /\ Processed(f)
    /\ \/ io[f] = "read"
       \/ /\ io[f] # "none"
          /\ Contains(disk0[f], RenderApp)
          /\ fix_imports(disk0[f]) # disk0[f]

\* The error lines printed for f.
ErrorLines(f) ==
    Cardinality({k \in DOMAIN out : out[k] = [kind |-> "error", arg |-> f]})

\* import { renderApp, FullscreenLayout } from '@zen/tui';
ExampleFixed ==
    kwImport \o <<" ", "{", " ">> \o RenderApp \o <<",", " ">>
    \o FullscreenLayout \o <<" ", "}">> \o FromClause

(***************************************************************************)
(* C1: fix_imports is idempotent: applied to its own output it returns     *)
(* that output unchanged.                                                  *)
(***************************************************************************)
C1_Idempotent == stage = "refixed" => twice = first.text

\* import { a renderApp FullscreenLayout } from '@zen/tui';  gets one comma
\* from the first application and another from the second.
C1_Witness ==
    /\ stage = "refixed"
    /\ input = kwImport \o <<" ", "{", " ", "a", " ">> \o RenderApp
                 \o <<" ">> \o FullscreenLayout \o <<" ", "}">> \o FromClause
    /\ first.text = kwImport \o <<" ", "{", " ", "a", ",", " ">> \o RenderApp
                      \o <<" ">> \o FullscreenLayout \o <<" ", "}">>
                      \o FromClause
    /\ twice = kwImport \o <<" ", "{", " ", "a", ",", " ">> \o RenderApp
                 \o <<",", " ">> \o FullscreenLayout \o <<" ", "}">>
                 \o FromClause

(***************************************************************************)
(* C2: for a file whose content does not contain 'renderApp', process_file *)
(* returns False, never opens the file for writing, and leaves the file's  *)
(* content as it was.                                                      *)
(***************************************************************************)
C2_Selectivity ==
    \A f \in Files :
        (Processed(f) /\ ~Contains(disk0[f], RenderApp)) =>
            /\ res[f].ret = FALSE
            /\ res[f].writes = 0
            /\ disk[f] = disk0[f]

\* A file without renderApp that the fixer would have rewritten (a
\* double-quoted import and a usage marker) has been processed.
C2_Witness ==
    \E f \in Files :
        /\ Processed(f)
        /\ io[f] = "none"
        /\ ~Contains(disk0[f], RenderApp)
        /\ has_fullscreen_usage(disk0[f])
        /\ DoubleQuotedMatch(disk0[f])
        /\ fix_imports(disk0[f]) # disk0[f]

(***************************************************************************)
(* C3: with <FullscreenLayout> in the file, the import                     *)
(*     import { renderApp } from '@zen/tui';                               *)
(* is rewritten to exactly                                                 *)
(*     import { renderApp, FullscreenLayout } from '@zen/tui';             *)
(***************************************************************************)
C3_ExactOutput ==
    stage # "input" =>
        \A c \in Calls :
            (SpanText(c) = ExampleImport /\ has_fullscreen_usage(input)) =>
                c.result = ExampleFixed

\* The example is rewritten to
\*     import { renderApp, FullscreenLayout} from '@zen/tui';
\* the space before the closing brace is gone.
C3_Witness ==
    /\ stage = "fixed"
    /\ input = ExampleImport \o <<"\n">> \o UsageMarker
    /\ first.text = kwImport \o <<" ", "{", " ">> \o RenderApp \o <<",", " ">>
                      \o FullscreenLayout \o <<"}">> \o FromClause
                      \o <<"\n">> \o UsageMarker

(***************************************************************************)
(* C4, as stated: process_file on a file whose only change is the quote    *)
(* style of an import from "@zen/tui" overwrites the file, with the module *)
(* in single quotes, and returns True (read for the calls in which no I/O  *)
(* error occurs).                                                          *)
(***************************************************************************)
C4_QuoteOnlyModified ==
    \A f \in Files :
        (Processed(f) /\ io[f] = "none" /\ QuoteOnly(disk0[f])) =>
            /\ res[f].ret = TRUE
            /\ disk[f] = Requote(disk0[f])

(***************************************************************************)
(* C4, amended: when the file contains 'renderApp' and no I/O error        *)
(* occurs, process_file on a file with a matched import from "@zen/tui" in *)
(* double quotes overwrites the file and returns True, and no such         *)
(* double-quoted import is left; a file whose only change is the quote     *)
(* style ends as its single-quoted form.                                   *)
(***************************************************************************)
C4_QuoteNormalized ==
    \A f \in Files :
        (/\ Processed(f)
         /\ io[f] = "none"
         /\ Contains(disk0[f], RenderApp)
         /\ DoubleQuotedMatch(disk0[f])) =>
            /\ res[f].ret = TRUE
            /\ res[f].writes = 1
            /\ disk[f] # disk0[f]
            /\ ~DoubleQuotedMatch(disk[f])
            /\ QuoteOnly(disk0[f]) => disk[f] = Requote(disk0[f])

\* The file  import { renderApp } from "@zen/tui";  has been rewritten to
\* import { renderApp } from '@zen/tui';  and reported as modified.
C4_Witness ==
    \E f \in Files :
        /\ Processed(f)
        /\ disk0[f] = QuoteOnlyImport
        /\ disk[f] = ExampleImport
        /\ res[f].ret = TRUE

(***************************************************************************)
(* C5: the output of fix_imports is the input with only the spans of the   *)
(* matched '@zen/tui' imports replaced: all other text is kept, in order,  *)
(* and no import statement of another module lies in a replaced span.      *)
(***************************************************************************)
C5_Untouched ==
    stage # "input" =>
        /\ Len(first.text) = Len(input) + Shift(Len(input) + 1, 1)
        /\ \A p \in 1..Len(input) :
              Outside(p) => first.text[p + Shift(p, 1)] = input[p]
        /\ \A k \in DOMAIN first.calls :
              /\ 1 <= first.calls[k].from
              /\ first.calls[k].from < first.calls[k].to
              /\ first.calls[k].to <= Len(input) + 1
              /\ k > 1 => first.calls[k - 1].to <= first.calls[k].from
        /\ \A i \in 1..Len(input) :
              OtherImportEnd(input, i) # 0 =>
                  \A c \in Calls :
                      c.to <= i \/ OtherImportEnd(input, i) <= c.from

\* An import from 'other' whose list lacks a comma stands before a matched
\* '@zen/tui' import that the fixer rewrote.
C5_Witness ==
    /\ stage = "fixed"
    /\ OtherImportEnd(input, 1) # 0
    /\ LacksComma(SubSeq(input, 1, OtherImportEnd(input, 1) - 1))
    /\ Len(first.calls) = 1
    /\ first.calls[1].from > OtherImportEnd(input, 1)
    /\ first.text # input
    /\ SubSeq(first.text, 1, OtherImportEnd(input, 1) - 1)
         = SubSeq(input, 1, OtherImportEnd(input, 1) - 1)

(***************************************************************************)
(* C6: when 'FullscreenLayout' already appears in the captured list of a   *)
(* matched import, the rewritten list holds it as often as before: no copy *)
(* is added, even with <FullscreenLayout> in the file.                     *)
(***************************************************************************)
C6_NoDuplicate ==
    stage # "input" =>
        \A c \in Calls :
            Contains(ImportStmt(c), FullscreenLayout) =>
                Occurrences(c.result, FullscreenLayout)
                    = Occurrences(ImportStmt(c), FullscreenLayout)

\* The file uses <FullscreenLayout>, a matched import already names it once
\* and the fixer rewrote that import.
C6_Witness ==
    /\ stage = "fixed"
    /\ has_fullscreen_usage(input)
    /\ \E c \in Calls :
          /\ Occurrences(ImportStmt(c), FullscreenLayout) = 1
          /\ Occurrences(c.result, FullscreenLayout) = 1
          /\ c.result # SpanText(c)

(***************************************************************************)
(* C7: an exception raised by the reading or the writing of a file is      *)
(* caught in process_file: one error line is printed for the file, the     *)
(* call returns False, and main goes on; every file of the walk is         *)
(* processed exactly once, and main reaches the summary line, whose count  *)
(* is the number of process_file calls that returned True.                 *)
(***************************************************************************)
C7_Safe ==
    /\ pc # "crashed"
    /\ \A f \in Files :
          /\ attempts[f] <= 1
          /\ (f \notin pending /\ cur # f) => attempts[f] = 1
          /\ Faulted(f) => (res[f].ret = FALSE /\ ErrorLines(f) = 1)
          /\ ~Faulted(f) => ErrorLines(f) = 0
    /\ fixed = Cardinality({f \in Files : Processed(f) /\ res[f].ret})
    /\ pc = "done" =>
          /\ \A f \in Files : attempts[f] = 1
          /\ out # <<>>
          /\ out[Len(out)] =
                [kind |-> "summary",
                 arg |-> Cardinality({f \in Files : res[f].ret})]

C7_ErrorsNeverAbort == []C7_Safe /\ <>(pc = "done")

\* main has printed its summary after a walk in which the reading or the
\* writing of one file raised and another file was fixed.
C7_Witness ==
    /\ pc = "done"
    /\ \E f \in Files : Faulted(f)
    /\ \E f \in Files : res[f].ret
    /\ fixed = 1

(***************************************************************************)
(* C8: a process_file call opens the file for writing at most once, and    *)
(* only when the content contains 'renderApp' and fix_imports changes it;  *)
(* when it returns True the file holds fix_imports of the content read;    *)
(* when fix_imports changes nothing the file is not opened for writing.    *)
(***************************************************************************)
C8_WriteDiscipline ==
    \A f \in Files :
        Processed(f) =>
            /\ res[f].writes <= 1
            /\ res[f].writes = 1 =>
                  /\ Contains(disk0[f], RenderApp)
                  /\ fix_imports(disk0[f]) # disk0[f]
            /\ res[f].ret => disk[f] = fix_imports(disk0[f])
            /\ fix_imports(disk0[f]) = disk0[f] =>
                  (res[f].writes = 0 /\ disk[f] = disk0[f])

\* A file has been rewritten by its one write, and reported.
C8_Witness ==
    \E f \in Files :
        /\ Processed(f)
        /\ res[f].ret
        /\ res[f].writes = 1
        /\ disk[f] # disk0[f]
        /\ disk[f] = fix_imports(disk0[f])

(***************************************************************************)
(* C9: for every matched import, if the file contains <FullscreenLayout>   *)
(* and the captured list does not contain 'FullscreenLayout', the          *)
(* rewritten list ends with ', FullscreenLayout}': the name is inserted    *)
(* before the closing brace, after a comma.                                *)
(***************************************************************************)
C9_SymbolAdded ==
    stage # "input" =>
        \A c \in Calls :
            (/\ has_fullscreen_usage(input)
             /\ ~Contains(ImportStmt(c), FullscreenLayout)) =>
                EndsWith(Rewritten(c),
                         <<",", " ">> \o FullscreenLayout \o <<"}">>)

\* With <FullscreenLayout> in the file,
\*     import { renderApp, } from '@zen/tui';
\* is matched and comes out as it was: no name is added to a list that ends
\* in a comma.
C9_Witness ==
    /\ stage = "fixed"
    /\ input = kwImport \o <<" ", "{", " ">> \o RenderApp \o <<",", " ", "}">>
                 \o FromClause \o <<"\n">> \o UsageMarker
    /\ Len(first.calls) = 1
    /\ first.text = input

(***************************************************************************)
(* C10: in the rewritten list of every matched import no identifier is     *)
(* followed by whitespace and then renderApp or FullscreenLayout with no   *)
(* comma between them.                                                     *)
(***************************************************************************)
C10_NoMissingComma ==
    stage # "input" =>
        \A c \in Calls :
            ~LacksComma(Rewritten(c))

\* import { a renderApp renderApp } from '@zen/tui';  comes out with the
\* second renderApp still lacking its comma.
C10_Witness ==
    /\ stage = "fixed"
    /\ input = kwImport \o <<" ", "{", " ", "a", " ">> \o RenderApp
                 \o <<" ">> \o RenderApp \o <<" ", "}">> \o FromClause
    /\ first.text = kwImport \o <<" ", "{", " ", "a", ",", " ">> \o RenderApp
                      \o <<" ">> \o RenderApp \o <<" ", "}">> \o FromClause

====
